---- MODULE Spec2Model ----
(***************************************************************************)
(* Route tracking and automatic rerouting of the campground navigation     *)
(* client: RouteTracker (lib/routeTracker.ts) and the GroundNavigation     *)
(* component that feeds it positions and reroutes when off route.          *)
(*                                                                         *)
(* Numbers.  Coordinates are planar, in whole metres: a geometry entry is  *)
(* <<lng, lat>> and a Coordinates value is [lat, lng], as in the source.   *)
(* calculateDistance of mapUtils returns KILOMETRES (metres / 1000); the   *)
(* model holds every such number as a fixed-point integer with FIX units   *)
(* per 1.0, so a literal n of the source is n * FIX in a comparison.       *)
(* Sequences of the source are 0-based; At(s, i) reads index i.            *)
(***************************************************************************)
EXTENDS Integers, Sequences, FiniteSets, TLC

\* ------------------------------------------------------------------ bounds
MaxInstr == 3
MaxCompleteCalls == 3
MaxOffRouteCount == 3
MaxInFlight == 2
MaxSuspended == 1
MaxRouteChanges == 1
MaxSpeedSamples == 2
MaxFeeds == 2

\* ------------------------------------------------------ program constants
FIX == 1000
STEP_ADVANCE_THRESHOLD == 15
OFF_ROUTE_THRESHOLD == 25
ROUTE_COMPLETE_THRESHOLD == 3

\* ----------------------------------------------------------------- helpers
At(s, i) == s[i + 1]

Abs(x) == IF x < 0 THEN -x ELSE x

Max(a, b) == IF a > b THEN a ELSE b

Min(a, b) == IF a < b THEN a ELSE b

\* the value of a one-point function [x \in {v} |-> e]: e with x the value
\* of v, which is computed once, as the assignment to a local of the source is
Let(f) == f[CHOOSE x \in DOMAIN f : TRUE]

RECURSIVE GCD(_, _)
GCD(a, b) == IF b = 0 THEN a ELSE Let([r \in {a % b} |-> GCD(b, r)])

\* a * b / c for an exact quotient, reduced first so that no product overflows
MulDiv(a, b, c) ==
  Let([v \in {<<a, b, c>>} |->
    Let([g \in {GCD(Abs(v[1]), Abs(v[3]))} |-> ((v[1] \div g) * v[2]) \div (v[3] \div g)])])

RECURSIVE SqrtIter(_, _)
SqrtIter(n, x) ==
  Let([y \in {(x + n \div x) \div 2} |-> IF y >= x THEN x ELSE SqrtIter(n, y)])

\* Math.sqrt to whole-metre resolution
ISqrt(n) == IF n < 2 THEN n ELSE SqrtIter(n, n)

\* shared/utils calculateDistance: metres between two points
calcDistanceMeters(lat1, lng1, lat2, lng2) ==
  Let([n \in {(lat1 - lat2) * (lat1 - lat2) + (lng1 - lng2) * (lng1 - lng2)} |-> ISqrt(n)])

\* mapUtils.calculateDistance: metres / 1000, i.e. kilometres (fixed point)
calculateDistance(point1, point2) ==
  Let([p \in {<<point1, point2>>} |->
    (calcDistanceMeters(p[1].lat, p[1].lng, p[2].lat, p[2].lng) * FIX) \div 1000])

\* { lat: geometry[i][1], lng: geometry[i][0] }
GeoPoint(geometry, i) == [lat |-> At(At(geometry, i), 1), lng |-> At(At(geometry, i), 0)]

\* ------------------------------------------------------- model input sets
Instr(n) == [k \in 1..n |-> k]

\* a 70 m path, and a long path with one turn (two 16 km legs)
ShortGeometry == << <<0, 0>>, <<70, 0>> >>

LongGeometry == << <<0, 0>>, <<16000, 0>>, <<16000, 16000>> >>

\* a single point: a route of length 0
PointGeometry == << <<70, 0>> >>

Geometries == { <<>>, PointGeometry, ShortGeometry, LongGeometry }

\* routes with n instructions, and routes whose instruction list is missing
\* (route.instructions is undefined): records without that field
Routes ==
  { [geometry |-> g, instructions |-> Instr(n)] : g \in Geometries, n \in 0..MaxInstr }
    \cup { [geometry |-> g] : g \in Geometries }

\* route.instructions is there (the !this.route.instructions tests)
HasInstructions(route) == "instructions" \in DOMAIN route

\* on the short path, 40 m beside it, at its end, 26 km beside it, and on
\* the long path: at its start, on its first leg and at its end
Positions ==
  { [lat |-> 0, lng |-> 35], [lat |-> 40, lng |-> 35], [lat |-> 0, lng |-> 70],
    [lat |-> 26000, lng |-> 35], [lat |-> 0, lng |-> 8000], [lat |-> 16000, lng |-> 16000] }

\* ------------------------------------------------------------ RouteTracker
getClosestPointOnSegment(point, segmentStart, segmentEnd) ==
  LET A == point.lat - segmentStart.lat
      B == point.lng - segmentStart.lng
      C == segmentEnd.lat - segmentStart.lat
      D == segmentEnd.lng - segmentStart.lng
      dot == A * C + B * D
      lenSq == C * C + D * D
  IN  IF lenSq = 0 THEN segmentStart
      ELSE IF dot < 0 THEN segmentStart
      ELSE IF dot > lenSq THEN segmentEnd
      ELSE [lat |-> segmentStart.lat + MulDiv(dot, C, lenSq),
            lng |-> segmentStart.lng + MulDiv(dot, D, lenSq)]

RECURSIVE ClosestLoop(_, _, _, _)
ClosestLoop(geometry, position, i, best) ==
  IF i >= Len(geometry) - 1 THEN best
  ELSE Let([closestOnSegment \in
              {getClosestPointOnSegment(position, GeoPoint(geometry, i),
                                        GeoPoint(geometry, i + 1))} |->
       Let([distance \in {calculateDistance(position, closestOnSegment)} |->
       Let([next \in {IF best.infinite \/ distance < best.distance
                      THEN [point |-> closestOnSegment, distance |-> distance,
                            segmentIndex |-> i, infinite |-> FALSE]
                      ELSE best} |->
         ClosestLoop(geometry, position, i + 1, next)])])])

findClosestPointOnRoute(route, position) ==
  IF Len(route.geometry) < 2
  THEN [point |-> position, distance |-> 0, segmentIndex |-> 0]
  ELSE Let([r \in {ClosestLoop(route.geometry, position, 0,
                     [point |-> position, distance |-> 0, segmentIndex |-> 0,
                      infinite |-> TRUE])} |->
         [point |-> r.point, distance |-> r.distance, segmentIndex |-> r.segmentIndex]])

\* the number NaN: a value that is no index and no percentage
NaN == -1

\* the anchor with Math.round in the place of Math.floor
AnchorOf_Round(i, n, g) ==
  IF n = 1 THEN NaN
  ELSE LET num == 2 * i * (g - 1) + (n - 1)
           den == 2 * (n - 1)
           distributedIndex == IF num >= 0 THEN num \div den
                               ELSE -((-num + (den - 1)) \div den)
       IN  Max(0, Min(distributedIndex, g - 1))

\* Math.floor((i / (n - 1)) * (g - 1)); 0 / 0 is NaN and stays NaN through
\* Math.min and Math.max
AnchorOf(i, n, g) ==
  IF n = 1 THEN NaN
  ELSE LET num == i * (g - 1)
           distributedIndex == IF num >= 0 THEN num \div (n - 1)
                               ELSE -((-num + (n - 2)) \div (n - 1))
       IN  Max(0, Min(distributedIndex, g - 1))

\* the anchor table after initializeInstructionAnchors(), old being the
\* table before: without an instruction list the method returns at once
initializeInstructionAnchors(route, old) ==
  IF ~HasInstructions(route) THEN old
  ELSE [k \in 1..Len(route.instructions) |->
          AnchorOf(k - 1, Len(route.instructions), Len(route.geometry))]

RECURSIVE SegmentSum(_, _, _)
\* sum of the segment lengths i .. hi-1, each counted only if i < g - 1
SegmentSum(geometry, i, hi) ==
  IF i >= hi THEN 0
  ELSE (IF i < Len(geometry) - 1
        THEN calculateDistance(GeoPoint(geometry, i), GeoPoint(geometry, i + 1))
        ELSE 0) + SegmentSum(geometry, i + 1, hi)

calculateTotalDistance(route) ==
  IF Len(route.geometry) < 2 THEN 0
  ELSE SegmentSum(route.geometry, 0, Len(route.geometry) - 1)

calculateDistanceToNextManeuver(t, currentPosition) ==
  LET geometry == t.route.geometry
  IN  IF t.currentStepIndex >= Len(t.instructionAnchorIndices) - 1
      THEN calculateDistance(currentPosition, GeoPoint(geometry, Len(geometry) - 1))
      ELSE Let([routeInfo \in {findClosestPointOnRoute(t.route, currentPosition)} |->
             LET nextAnchorIndex == At(t.instructionAnchorIndices, t.currentStepIndex + 1)
                 first == IF routeInfo.segmentIndex < Len(geometry) - 1
                          THEN calculateDistance(routeInfo.point,
                                                 GeoPoint(geometry, routeInfo.segmentIndex + 1))
                          ELSE 0
             IN  first + SegmentSum(geometry, routeInfo.segmentIndex + 1, nextAnchorIndex)])

\* speedTracker.addPosition(position) on a history of n samples: the
\* SpeedTracker keeps a rolling window of the latest samples
addPosition(n) == Min(n + 1, MaxSpeedSamples)

\* new RouteTracker(route, ...); speedSamples is the length of the history
\* of the SpeedTracker, empty for a new one
NewTracker(route) ==
  [route |-> route,
   currentStepIndex |-> 0,
   completedDistance |-> 0,
   speedSamples |-> 0,
   totalDistance |-> calculateTotalDistance(route),
   instructionAnchorIndices |-> initializeInstructionAnchors(route, <<>>)]

\* updateRoute without the reset of the step index
updateRoute_KeepStep(t, newRoute) ==
  [route |-> newRoute,
   currentStepIndex |-> t.currentStepIndex,
   completedDistance |-> 0,
   speedSamples |-> 0,
   totalDistance |-> calculateTotalDistance(newRoute),
   instructionAnchorIndices |-> initializeInstructionAnchors(newRoute, t.instructionAnchorIndices)]

\* tracker.updateRoute(newRoute)
updateRoute(t, newRoute) ==
  [route |-> newRoute,
   currentStepIndex |-> 0,
   completedDistance |-> 0,
   speedSamples |-> 0,
   totalDistance |-> calculateTotalDistance(newRoute),
   instructionAnchorIndices |-> initializeInstructionAnchors(newRoute, t.instructionAnchorIndices)]

\* the default progress with a wrong percentage
createDefaultProgress_Done ==
  [currentStep |-> 0, distanceToNext |-> 0, distanceRemaining |-> 0,
   shouldAdvance |-> FALSE, isOffRoute |-> FALSE, percentComplete |-> 100 * FIX,
   offRouteDistance |-> 0]

createDefaultProgress ==
  [currentStep |-> 0, distanceToNext |-> 0, distanceRemaining |-> 0,
   shouldAdvance |-> FALSE, isOffRoute |-> FALSE, percentComplete |-> 0,
   offRouteDistance |-> 0]

calculateRemainingDistance(t, currentPosition) ==
  LET geometry == t.route.geometry
  IN  IF Len(geometry) = 0 THEN 0
      ELSE Let([routeInfo \in {findClosestPointOnRoute(t.route, currentPosition)} |->
             LET first == IF routeInfo.segmentIndex < Len(geometry) - 1
                          THEN calculateDistance(routeInfo.point,
                                                 GeoPoint(geometry, routeInfo.segmentIndex + 1))
                          ELSE 0
             IN  first + SegmentSum(geometry, routeInfo.segmentIndex + 1, Len(geometry) - 1)])

\* Math.min(((totalDistance - distanceRemaining) / totalDistance) * 100, 100);
\* 0 / 0 is NaN and stays NaN through Math.min (a route of length 0 has
\* nothing remaining, so the quotient is never x / 0 with x # 0)
PercentComplete(totalDistance, distanceRemaining) ==
  IF totalDistance = 0 THEN NaN
  ELSE Let([done \in {(totalDistance - distanceRemaining) * 100} |->
         Min((done \div totalDistance) * FIX + ((done % totalDistance) * FIX) \div totalDistance,
             100 * FIX)])

\* mutants of the step-advance test: without the final-instruction bound,
\* and without the distance test
CanAdvance_NoFinalCheck(shouldAdvance, currentStepIndex, instructionCount) ==
  shouldAdvance

CanAdvance_IgnoreDistance(shouldAdvance, currentStepIndex, instructionCount) ==
  currentStepIndex < instructionCount - 1

\* the step-advance test of updatePosition
CanAdvance(shouldAdvance, currentStepIndex, instructionCount) ==
  shouldAdvance /\ currentStepIndex < instructionCount - 1

\* the off-route test of updatePosition
OffRouteTest(distance) == distance > OFF_ROUTE_THRESHOLD * FIX

\* the off-route callback left out
OnOffRouteCalls_Never(isOffRoute, distance) == <<>>

\* if (isOffRoute) { ... this.onOffRoute(routeInfo.distance) }: the arguments
\* of the onOffRoute calls of one updatePosition
OnOffRouteCalls(isOffRoute, distance) == IF isOffRoute THEN <<distance>> ELSE <<>>

\* tracker.updatePosition(position): the tracker afterwards, the progress
\* returned, and the callbacks invoked, in order of invocation
\* threw: the call ended in a TypeError, at the first
\* this.route.instructions.length (line 277) of a route without an
\* instruction list, after the position went to the speed tracker
updatePosition(t, position) ==
  IF Len(t.route.geometry) = 0
  THEN [tracker |-> t, progress |-> createDefaultProgress, threw |-> FALSE,
        stepChange |-> <<>>, complete |-> 0, offRoute |-> <<>>]
  ELSE IF ~HasInstructions(t.route)
  THEN [tracker |-> [t EXCEPT !.speedSamples = addPosition(t.speedSamples)],
        progress |-> createDefaultProgress, threw |-> TRUE,
        stepChange |-> <<>>, complete |-> 0, offRoute |-> <<>>]
  ELSE
    Let([routeInfo \in {findClosestPointOnRoute(t.route, position)} |->
    Let([distanceToNextManeuver \in {calculateDistanceToNextManeuver(t, position)} |->
    Let([distanceToDestination \in
           {calculateDistance(position,
                              GeoPoint(t.route.geometry, Len(t.route.geometry) - 1))} |->
    Let([distanceRemaining \in {calculateRemainingDistance(t, position)} |->
      LET isOffRoute == OffRouteTest(routeInfo.distance)
          shouldAdvance == distanceToNextManeuver < STEP_ADVANCE_THRESHOLD * FIX
          isComplete == distanceToDestination < ROUTE_COMPLETE_THRESHOLD * FIX
          advance == CanAdvance(shouldAdvance, t.currentStepIndex, Len(t.route.instructions))
          newStep == IF advance THEN t.currentStepIndex + 1 ELSE t.currentStepIndex
      IN  [tracker |-> [t EXCEPT !.currentStepIndex = newStep,
                                 !.speedSamples = addPosition(t.speedSamples)],
           progress |-> [currentStep |-> newStep,
                         distanceToNext |-> distanceToNextManeuver,
                         distanceRemaining |-> distanceRemaining,
                         shouldAdvance |-> shouldAdvance,
                         isOffRoute |-> isOffRoute,
                         percentComplete |-> PercentComplete(t.totalDistance, distanceRemaining),
                         offRouteDistance |-> routeInfo.distance],
           threw |-> FALSE,
           stepChange |-> IF advance THEN <<newStep>> ELSE <<>>,
           complete |-> IF isComplete THEN 1 ELSE 0,
           offRoute |-> OnOffRouteCalls(isOffRoute, routeInfo.distance)]])])])])

\* null is <<>>, an instruction x is <<x>>
getCurrentInstruction(t) ==
  IF ~HasInstructions(t.route) THEN <<>>
  ELSE IF t.currentStepIndex >= Len(t.route.instructions) THEN <<>>
  ELSE <<At(t.route.instructions, t.currentStepIndex)>>

getNextInstruction(t) ==
  IF ~HasInstructions(t.route) THEN <<>>
  ELSE IF t.currentStepIndex + 1 >= Len(t.route.instructions) THEN <<>>
  ELSE <<At(t.route.instructions, t.currentStepIndex + 1)>>

\* threw: this.route.instructions.length (line 536) of a route without an
\* instruction list is a TypeError
getStepProgress(t) ==
  IF ~HasInstructions(t.route)
  THEN [threw |-> TRUE, current |-> 0, total |-> 0,
        instruction |-> <<>>, nextInstruction |-> <<>>]
  ELSE [threw |-> FALSE, current |-> t.currentStepIndex + 1,
        total |-> Len(t.route.instructions),
        instruction |-> getCurrentInstruction(t),
        nextInstruction |-> getNextInstruction(t)]

\* ---------------------------------------------------------------- state
VARIABLES
  tracker,        \* the RouteTracker object (GroundNavigation: routeTracker)
  lastCall,       \* the last RouteTracker operation, what it returned and called
  completeCalls,  \* onRouteComplete invocations since the route was set
  route,          \* GroundNavigation: the route prop
  onRouteUpdateProp, \* whether the optional onRouteUpdate prop is given
  useRealGPS,     \* useLocation().useRealGPS
  currentPosition,\* useNavigationTracking().currentPosition: <<>> is null, <<p>> a sample
  isNavigating,   \* React state
  currentStepIndex, \* React state
  isOffRoute,     \* React state
  isRerouting,    \* React state
  offRouteCount,  \* React state
  effectStale,    \* a dependency of the updateProgress effect changed since it last ran
  suspended,      \* updateProgress calls waiting on ttsClient.speak, with their closures
  inFlight,       \* rerouteService.quickReroute promises not yet settled
  endTimer,       \* setTimeout(onEndNavigation, 2000) pending
  parentEnded,    \* onEndNavigation was called
  routeChanges,   \* route props passed in from outside so far
  finishedSinceSample, \* a reroute attempt finished since the last position sample
  feeds,          \* updatePosition calls made with the current position sample
  event           \* the last GroundNavigation step and what it saw

\* SmartRoutingOrchestrator (server/lib/smartRoutingOrchestrator.ts)
VARIABLES
  routeCache,     \* the routeCache Map: key -> entry
  now,            \* Date.now()
  ticks,          \* clock advances so far
  calls,          \* calculateRoute invocations so far
  awaiting,       \* calculateRoute calls waiting on googleDirections.calculateRoute
  lastResult      \* the last calculateRoute call that returned, and what it saw

orchVars == <<routeCache, now, ticks, calls, awaiting, lastResult>>

\* SecureTTSClient (client/src/services/secureTTSClient.ts)
VARIABLES
  audioCache,     \* the audioCache Map, as its entries in insertion order
  currentVoiceId, \* currentVoiceId
  generating,     \* speak calls waiting on generateTTS
  playbacks,      \* the playAudio calls in call order: the chain of playbackQueue
  speaks,         \* speak calls so far
  ttsEvent        \* the last addToCache call and what it did

ttsVars == <<audioCache, currentVoiceId, generating, playbacks, speaks, ttsEvent>>

\* GestureEnhancedMap (client/src/components/Map/GestureEnhancedMap.tsx)
VARIABLES
  gNow,           \* Date.now()
  touches,        \* fingers on the map
  touchStart,     \* touchStart.current: <<>> is null, <<t>> a touch begun at t
  tapTimeoutId,   \* tapTimeoutId.current: <<>> is null
  lastTapTime,    \* lastTapTime.current
  touchStarts,    \* touchstart events so far
  taps            \* the taps handleTouchEnd processed, and their callbacks

gestureVars == <<gNow, touches, touchStart, tapTimeoutId, lastTapTime, touchStarts, taps>>

\* the Navigation page (unnamed/part_010)
VARIABLES
  currentRoute,   \* React state: <<>> is null
  pageNavigating, \* React state isNavigating of the page
  destinationRef, \* destinationRef.current: <<>> is null
  routeTrackerRef, \* routeTrackerRef.current: <<>> is null
  rerouteDebounceTimerRef, \* rerouteDebounceTimerRef.current: <<>> is null
  pendingRoutes,  \* getRoute.mutateAsync promises not yet settled
  toastDestination, \* newDestination of the toast whose button is shown
  routeRequests,  \* route requests so far
  pageEvent       \* the last handler of the page that ran

pageVars == <<currentRoute, pageNavigating, destinationRef, routeTrackerRef,
              rerouteDebounceTimerRef, pendingRoutes, toastDestination, routeRequests,
              pageEvent>>

appVars == <<orchVars, ttsVars, gestureVars, pageVars>>

trackerVars == <<tracker, lastCall, completeCalls>>

navVars == <<route, onRouteUpdateProp, useRealGPS, currentPosition, isNavigating,
             currentStepIndex, isOffRoute, isRerouting, offRouteCount, effectStale,
             suspended, inFlight, endTimer, parentEnded, routeChanges,
             finishedSinceSample, feeds, event>>

vars == <<tracker, lastCall, completeCalls, route, onRouteUpdateProp, useRealGPS,
          currentPosition, isNavigating, currentStepIndex, isOffRoute, isRerouting,
          offRouteCount, effectStale, suspended, inFlight, endTimer, parentEnded,
          routeChanges, finishedSinceSample, feeds, event,
          routeCache, now, ticks, calls, awaiting, lastResult,
          audioCache, currentVoiceId, generating, playbacks, speaks, ttsEvent,
          gNow, touches, touchStart, tapTimeoutId, lastTapTime, touchStarts, taps,
          currentRoute, pageNavigating, destinationRef, routeTrackerRef,
          rerouteDebounceTimerRef, pendingRoutes, toastDestination, routeRequests,
          pageEvent>>

NoEvent ==
  [kind |-> "none", wasNavigating |-> TRUE, superseded |-> FALSE,
   prevRoute |-> [geometry |-> <<>>, instructions |-> <<>>], prevStep |-> 0,
   newRoute |-> [geometry |-> <<>>, instructions |-> <<>>]]

\* the component before it is mounted
NavIdle ==
  /\ route = [geometry |-> <<>>, instructions |-> <<>>]
  /\ onRouteUpdateProp = FALSE
  /\ useRealGPS = FALSE
  /\ currentPosition = <<>>
  /\ isNavigating = FALSE
  /\ currentStepIndex = 0
  /\ isOffRoute = FALSE
  /\ isRerouting = FALSE
  /\ offRouteCount = 0
  /\ effectStale = FALSE
  /\ suspended = <<>>
  /\ inFlight = <<>>
  /\ endTimer = FALSE
  /\ parentEnded = FALSE
  /\ routeChanges = 0
  /\ finishedSinceSample = FALSE
  /\ feeds = 0
  /\ event = NoEvent

\* no calculateRoute call has returned yet
NoResult ==
  [kind |-> "none", start |-> [lat |-> 0, lng |-> 0], end |-> [lat |-> 0, lng |-> 0],
   mode |-> "walking", route |-> [success |-> FALSE, method |-> "none"], hit |-> FALSE,
   consulted |-> <<>>, at |-> 0, key |-> <<>>, entry |-> <<>>]

\* the orchestrator as constructed (line 41: routeCache.clear())
OrchIdle ==
  /\ routeCache = <<>>
  /\ now = 0
  /\ ticks = 0
  /\ calls = 0
  /\ awaiting = <<>>
  /\ lastResult = NoResult

\* the voice client as constructed
TTSIdle ==
  /\ audioCache = <<>>
  /\ currentVoiceId = ""
  /\ generating = <<>>
  /\ playbacks = <<>>
  /\ speaks = 0
  /\ ttsEvent = [kind |-> "none", key |-> 0, before |-> <<>>, after |-> <<>>]

\* the map before any touch
GestureIdle ==
  /\ gNow = 0
  /\ touches = 0
  /\ touchStart = <<>>
  /\ tapTimeoutId = <<>>
  /\ lastTapTime = 0
  /\ touchStarts = 0
  /\ taps = <<>>

\* the page as first rendered
PageIdle ==
  /\ currentRoute = <<>>
  /\ pageNavigating = FALSE
  /\ destinationRef = <<>>
  /\ routeTrackerRef = <<>>
  /\ rerouteDebounceTimerRef = <<>>
  /\ pendingRoutes = <<>>
  /\ toastDestination = <<>>
  /\ routeRequests = 0
  /\ pageEvent = "none"

\* the subsystems a specification does not exercise
AppIdle ==
  /\ OrchIdle
  /\ TTSIdle
  /\ GestureIdle
  /\ PageIdle

NoCall ==
  [op |-> "none", position |-> [lat |-> 0, lng |-> 0], prevStep |-> 0,
   prevOffRoute |-> FALSE, threw |-> FALSE,
   progress |-> createDefaultProgress, stepChange |-> <<>>, complete |-> 0, offRoute |-> <<>>]

CallOf(t, position, r) ==
  [op |-> "updatePosition", position |-> position, prevStep |-> t.currentStepIndex,
   prevOffRoute |-> (lastCall.op = "updatePosition" /\ Len(lastCall.offRoute) = 1),
   threw |-> r.threw, progress |-> r.progress, stepChange |-> r.stepChange,
   complete |-> r.complete, offRoute |-> r.offRoute]

\* ------------------------------------------- RouteTracker on its own
TrackerInit ==
  /\ AppIdle
  /\ \E r \in Routes : tracker = NewTracker(r)
  /\ lastCall = NoCall
  /\ completeCalls = 0
  /\ NavIdle

TUpdatePosition(position) ==
  /\ UNCHANGED appVars
  /\ completeCalls < MaxCompleteCalls
  /\ \E r \in {updatePosition(tracker, position)} :
       /\ tracker' = r.tracker
       /\ lastCall' = CallOf(tracker, position, r)
       /\ completeCalls' = completeCalls + r.complete
  /\ UNCHANGED navVars

TUpdateRoute(newRoute) ==
  /\ UNCHANGED appVars
  /\ tracker' = updateRoute(tracker, newRoute)
  /\ lastCall' = [NoCall EXCEPT !.op = "updateRoute", !.prevStep = tracker.currentStepIndex]
  /\ completeCalls' = 0
  /\ UNCHANGED navVars

TGetStepProgress ==
  /\ UNCHANGED appVars
  /\ lastCall.op # "getStepProgress"
  /\ lastCall' = [NoCall EXCEPT !.op = "getStepProgress",
                                !.prevStep = tracker.currentStepIndex,
                                !.threw = getStepProgress(tracker).threw]
  /\ UNCHANGED <<tracker, completeCalls>>
  /\ UNCHANGED navVars

TrackerNext ==
  \/ \E position \in Positions : TUpdatePosition(position)
  \/ \E newRoute \in Routes : TUpdateRoute(newRoute)
  \/ TGetStepProgress

TrackerSpec == TrackerInit /\ [][TrackerNext]_vars

\* -------------------------------------------------- GroundNavigation
\* routes and positions used while navigating
NavRoutes ==
  { [geometry |-> ShortGeometry, instructions |-> Instr(2)],
    [geometry |-> LongGeometry, instructions |-> Instr(2)] }

NavPositions ==
  { [lat |-> 0, lng |-> 35], [lat |-> 26000, lng |-> 35], [lat |-> 0, lng |-> 8000] }

RemoveAt(q, i) == [k \in 1..(Len(q) - 1) |-> IF k < i THEN q[k] ELSE q[k + 1]]

\* every request still outstanding was issued for a route that is no longer active
Supersede(q) == [k \in 1..Len(q) |-> [q[k] EXCEPT !.superseded = TRUE]]

\* the first line of handleAutoReroute, on the values its closure captured
AutoRerouteBlocked(capIsRerouting, capHasPosition, hasOnRouteUpdate) ==
  capIsRerouting \/ ~capHasPosition \/ ~hasOnRouteUpdate

\* finally { setIsRerouting(false) }, forgotten
FinallyRerouting_Kept(rerouting) == rerouting

\* finally { setIsRerouting(false) }
FinallyRerouting(rerouting) == FALSE

\* the reset after a successful reroute, without the off-route counter
ResetTrackingState_KeepCount(stepIndex, count) ==
  [currentStepIndex |-> 0, offRouteCount |-> count]

\* setCurrentStepIndex(0); setOffRouteCount(0)
ResetTrackingState(stepIndex, count) ==
  [currentStepIndex |-> 0, offRouteCount |-> 0]

\* the closure of one updateProgress call and the progress it computed
Closure(progress) ==
  [progress |-> [currentStep |-> progress.currentStep, isOffRoute |-> progress.isOffRoute],
   capStepIndex |-> currentStepIndex,
   capIsOffRoute |-> isOffRoute,
   capIsRerouting |-> isRerouting,
   capRoute |-> route]

\* updateProgress after the voice announcement (lines 348-377), run on the
\* component state st with the closure c; decide is what
\* campgroundRerouteDetector.shouldReroute answers
RestOfUpdateProgress(c, st, decide) ==
  LET step2 == IF c.progress.currentStep # c.capStepIndex
               THEN c.progress.currentStep ELSE st.currentStepIndex
      nowOff == c.progress.isOffRoute /\ ~c.capIsOffRoute
      backOn == ~c.progress.isOffRoute /\ c.capIsOffRoute
      off2 == IF nowOff THEN TRUE ELSE IF backOn THEN FALSE ELSE st.isOffRoute
      count2 == IF nowOff THEN st.offRouteCount + 1
                ELSE IF backOn THEN 0 ELSE st.offRouteCount
      called == c.progress.isOffRoute /\ decide
      entered == called /\ ~AutoRerouteBlocked(c.capIsRerouting, TRUE, onRouteUpdateProp)
      issued == entered /\ Len(c.capRoute.geometry) > 0
  IN  [currentStepIndex |-> step2, isOffRoute |-> off2, offRouteCount |-> count2,
       isRerouting |-> IF issued THEN TRUE
                       ELSE IF entered THEN FinallyRerouting(TRUE) ELSE st.isRerouting,
       issued |-> issued]

NavInit ==
  /\ AppIdle
  /\ \E r \in NavRoutes :
       /\ route = r
       /\ tracker = NewTracker(r)
  /\ lastCall = NoCall
  /\ completeCalls = 0
  /\ onRouteUpdateProp \in BOOLEAN
  /\ useRealGPS \in BOOLEAN
  /\ currentPosition = <<>>
  /\ isNavigating = TRUE
  /\ currentStepIndex = 0
  /\ isOffRoute = FALSE
  /\ isRerouting = FALSE
  /\ offRouteCount = 0
  /\ effectStale = TRUE
  /\ suspended = <<>>
  /\ inFlight = <<>>
  /\ endTimer = FALSE
  /\ parentEnded = FALSE
  /\ routeChanges = 0
  /\ finishedSinceSample = FALSE
  /\ feeds = 0
  /\ event = NoEvent

\* useNavigationTracking delivers a sample (real or mock)
NewPosition(position) ==
  /\ UNCHANGED appVars
  /\ isNavigating
  /\ currentPosition' = <<position>>
  /\ effectStale' = TRUE
  /\ finishedSinceSample' = FALSE
  /\ feeds' = 0
  /\ event' = NoEvent
  /\ UNCHANGED <<tracker, lastCall, completeCalls, route, onRouteUpdateProp, useRealGPS,
                 isNavigating, currentStepIndex, isOffRoute, isRerouting, offRouteCount,
                 suspended, inFlight, endTimer, parentEnded, routeChanges>>

\* the updateProgress effect runs and returns at its first line
ProgressEffectSkips ==
  /\ UNCHANGED appVars
  /\ effectStale
  /\ currentPosition = <<>> \/ ~isNavigating
  /\ effectStale' = FALSE
  /\ event' = NoEvent
  /\ UNCHANGED <<tracker, lastCall, completeCalls, route, onRouteUpdateProp, useRealGPS,
                 currentPosition, isNavigating, currentStepIndex, isOffRoute, isRerouting,
                 offRouteCount, suspended, inFlight, endTimer, parentEnded, routeChanges,
                 finishedSinceSample, feeds>>

\* the state after routeTracker.updatePosition and the callbacks it invoked
AfterCallbacks(r) ==
  [currentStepIndex |-> IF r.stepChange # <<>> THEN r.stepChange[1] ELSE currentStepIndex,
   isOffRoute |-> IF r.offRoute # <<>> THEN TRUE ELSE isOffRoute,
   offRouteCount |-> IF r.offRoute # <<>> THEN offRouteCount + 1 ELSE offRouteCount,
   isRerouting |-> isRerouting]

\* the voice branch of updateProgress can be taken (line 285)
CanAnnounce(t, progress) ==
  /\ t.currentStepIndex < Len(t.route.instructions)
  /\ progress.distanceToNext * 100 > FIX

\* the updateProgress effect runs to its end without a voice announcement:
\* updatePosition with its callbacks, then lines 348-377
ProgressEffectRuns(decide) ==
  /\ UNCHANGED appVars
  /\ effectStale
  /\ currentPosition # <<>> /\ isNavigating
  /\ feeds < MaxFeeds
  /\ feeds' = feeds + 1
  /\ \E r \in {updatePosition(tracker, currentPosition[1])} :
     \E fin \in {RestOfUpdateProgress(Closure(r.progress), AfterCallbacks(r), decide)} :
         /\ ~r.progress.isOffRoute => ~decide
         /\ fin.offRouteCount <= MaxOffRouteCount
         /\ fin.issued => Len(inFlight) < MaxInFlight
         /\ tracker' = r.tracker
         /\ lastCall' = CallOf(tracker, currentPosition[1], r)
         /\ completeCalls' = completeCalls + r.complete
         /\ isNavigating' = (isNavigating /\ r.complete = 0)
         /\ endTimer' = (endTimer \/ r.complete = 1)
         /\ currentStepIndex' = fin.currentStepIndex
         /\ isOffRoute' = fin.isOffRoute
         /\ offRouteCount' = fin.offRouteCount
         /\ isRerouting' = fin.isRerouting
         /\ inFlight' = IF fin.issued
                        THEN Append(inFlight, [route |-> route, superseded |-> FALSE])
                        ELSE inFlight
         /\ effectStale' = \/ fin.currentStepIndex # currentStepIndex
                           \/ fin.isOffRoute # isOffRoute
                           \/ fin.isRerouting # isRerouting
                           \/ r.complete = 1
         /\ event' = IF fin.issued THEN [NoEvent EXCEPT !.kind = "requestIssued"] ELSE NoEvent
  /\ UNCHANGED <<route, onRouteUpdateProp, useRealGPS, currentPosition, suspended, parentEnded,
                 routeChanges, finishedSinceSample>>

\* the updateProgress effect runs up to await ttsClientRef.current.speak(...):
\* updatePosition with its callbacks, then the call waits with its closure
ProgressEffectSuspends ==
  /\ UNCHANGED appVars
  /\ effectStale
  /\ currentPosition # <<>> /\ isNavigating
  /\ Len(suspended) < MaxSuspended
  /\ feeds < MaxFeeds
  /\ feeds' = feeds + 1
  /\ \E r \in {updatePosition(tracker, currentPosition[1])} :
     \E st \in {AfterCallbacks(r)} :
         /\ CanAnnounce(r.tracker, r.progress)
         /\ st.offRouteCount <= MaxOffRouteCount
         /\ tracker' = r.tracker
         /\ lastCall' = CallOf(tracker, currentPosition[1], r)
         /\ completeCalls' = completeCalls + r.complete
         /\ isNavigating' = (isNavigating /\ r.complete = 0)
         /\ endTimer' = (endTimer \/ r.complete = 1)
         /\ currentStepIndex' = st.currentStepIndex
         /\ isOffRoute' = st.isOffRoute
         /\ offRouteCount' = st.offRouteCount
         /\ suspended' = Append(suspended, Closure(r.progress))
         /\ effectStale' = \/ st.currentStepIndex # currentStepIndex
                           \/ st.isOffRoute # isOffRoute
                           \/ r.complete = 1
         /\ event' = NoEvent
  /\ UNCHANGED <<route, onRouteUpdateProp, useRealGPS, currentPosition, isRerouting, inFlight,
                 parentEnded, routeChanges, finishedSinceSample>>

\* ttsClient.speak settles and the suspended updateProgress call continues
ProgressResumes(i, decide) ==
  /\ UNCHANGED appVars
  /\ i \in 1..Len(suspended)
  /\ LET c == suspended[i]
         st == [currentStepIndex |-> currentStepIndex, isOffRoute |-> isOffRoute,
                offRouteCount |-> offRouteCount, isRerouting |-> isRerouting]
         fin == RestOfUpdateProgress(c, st, decide)
     IN  /\ ~c.progress.isOffRoute => ~decide
         /\ fin.offRouteCount <= MaxOffRouteCount
         /\ fin.issued => Len(inFlight) < MaxInFlight
         /\ currentStepIndex' = fin.currentStepIndex
         /\ isOffRoute' = fin.isOffRoute
         /\ offRouteCount' = fin.offRouteCount
         /\ isRerouting' = fin.isRerouting
         /\ suspended' = RemoveAt(suspended, i)
         /\ inFlight' = IF fin.issued
                        THEN Append(inFlight, [route |-> c.capRoute, superseded |-> FALSE])
                        ELSE inFlight
         /\ effectStale' = \/ effectStale
                           \/ fin.currentStepIndex # currentStepIndex
                           \/ fin.isOffRoute # isOffRoute
                           \/ fin.isRerouting # isRerouting
         /\ event' = IF fin.issued THEN [NoEvent EXCEPT !.kind = "requestIssued"] ELSE NoEvent
  /\ UNCHANGED <<tracker, lastCall, completeCalls, route, onRouteUpdateProp, useRealGPS,
                 currentPosition, isNavigating, endTimer, parentEnded, routeChanges,
                 finishedSinceSample, feeds>>

\* quickReroute resolves with newRoute: the rest of the try block, finally,
\* and the render with the route the parent passes back (new tracker, and
\* the route-change effect)
RerouteSucceeds(i, newRoute) ==
  /\ UNCHANGED appVars
  /\ i \in 1..Len(inFlight)
  /\ LET reset == ResetTrackingState(currentStepIndex, offRouteCount)
     IN  /\ currentStepIndex' = reset.currentStepIndex
         /\ offRouteCount' = reset.offRouteCount
  /\ route' = newRoute
  /\ tracker' = updateRoute(NewTracker(newRoute), newRoute)
  /\ lastCall' = [NoCall EXCEPT !.op = "updateRoute"]
  /\ completeCalls' = 0
  /\ isRerouting' = FinallyRerouting(isRerouting)
  /\ inFlight' = Supersede(RemoveAt(inFlight, i))
  /\ effectStale' = TRUE
  /\ finishedSinceSample' = TRUE
  /\ UNCHANGED feeds
  /\ event' = [kind |-> "rerouteSucceeded", wasNavigating |-> isNavigating,
               superseded |-> inFlight[i].superseded,
               prevRoute |-> route, prevStep |-> tracker.currentStepIndex,
               newRoute |-> newRoute]
  /\ UNCHANGED <<onRouteUpdateProp, useRealGPS, currentPosition, isNavigating, isOffRoute,
                 suspended, endTimer, parentEnded, routeChanges>>

\* quickReroute rejects: catch, then finally
RerouteFails(i) ==
  /\ UNCHANGED appVars
  /\ i \in 1..Len(inFlight)
  /\ isRerouting' = FinallyRerouting(isRerouting)
  /\ inFlight' = RemoveAt(inFlight, i)
  /\ effectStale' = (effectStale \/ isRerouting' # isRerouting)
  /\ finishedSinceSample' = TRUE
  /\ UNCHANGED feeds
  /\ event' = [NoEvent EXCEPT !.kind = "rerouteFailed", !.wasNavigating = isNavigating,
                              !.superseded = inFlight[i].superseded,
                              !.prevRoute = route, !.prevStep = tracker.currentStepIndex]
  /\ UNCHANGED <<tracker, lastCall, completeCalls, route, onRouteUpdateProp, useRealGPS,
                 currentPosition, isNavigating, currentStepIndex, isOffRoute, offRouteCount,
                 suspended, endTimer, parentEnded, routeChanges>>

\* the End button
HandleEndNavigation ==
  /\ UNCHANGED appVars
  /\ isNavigating
  /\ isNavigating' = FALSE
  /\ parentEnded' = TRUE
  /\ effectStale' = TRUE
  /\ event' = NoEvent
  /\ UNCHANGED <<tracker, lastCall, completeCalls, route, onRouteUpdateProp, useRealGPS,
                 currentPosition, currentStepIndex, isOffRoute, isRerouting, offRouteCount,
                 suspended, inFlight, endTimer, routeChanges, finishedSinceSample, feeds>>

\* 2 s after onRouteComplete: onEndNavigation()
EndTimerFires ==
  /\ UNCHANGED appVars
  /\ endTimer
  /\ endTimer' = FALSE
  /\ parentEnded' = TRUE
  /\ event' = NoEvent
  /\ UNCHANGED <<tracker, lastCall, completeCalls, route, onRouteUpdateProp, useRealGPS,
                 currentPosition, isNavigating, currentStepIndex, isOffRoute, isRerouting,
                 offRouteCount, effectStale, suspended, inFlight, routeChanges,
                 finishedSinceSample, feeds>>

\* the parent passes another route: new tracker, and the route-change effect
ExternalRouteChange(newRoute) ==
  /\ UNCHANGED appVars
  /\ isNavigating
  /\ routeChanges < MaxRouteChanges
  /\ routeChanges' = routeChanges + 1
  /\ route' = newRoute
  /\ tracker' = updateRoute(NewTracker(newRoute), newRoute)
  /\ lastCall' = [NoCall EXCEPT !.op = "updateRoute"]
  /\ completeCalls' = 0
  /\ currentStepIndex' = 0
  /\ inFlight' = Supersede(inFlight)
  /\ effectStale' = TRUE
  /\ event' = NoEvent
  /\ UNCHANGED <<onRouteUpdateProp, useRealGPS, currentPosition, isNavigating, isOffRoute,
                 isRerouting, offRouteCount, suspended, endTimer, parentEnded,
                 finishedSinceSample, feeds>>

Next ==
  \/ \E position \in NavPositions : NewPosition(position)
  \/ ProgressEffectSkips
  \/ \E decide \in BOOLEAN : ProgressEffectRuns(decide)
  \/ \E i \in 1..MaxInFlight, newRoute \in NavRoutes : RerouteSucceeds(i, newRoute)
  \/ \E i \in 1..MaxInFlight : RerouteFails(i)
  \/ HandleEndNavigation
  \/ EndTimerFires
  \/ \E newRoute \in NavRoutes : ExternalRouteChange(newRoute)

Init == NavInit

\* GroundNavigation without a voice client (ttsClientRef.current is null)
Spec == Init /\ [][Next]_vars

\* GroundNavigation with a voice client: updateProgress may wait on speak;
\* the parent changes the route only through onRouteUpdate
VoiceNext ==
  \/ \E position \in NavPositions : NewPosition(position)
  \/ ProgressEffectSkips
  \/ \E decide \in BOOLEAN : ProgressEffectRuns(decide)
  \/ ProgressEffectSuspends
  \/ \E i \in 1..MaxSuspended, decide \in BOOLEAN : ProgressResumes(i, decide)
  \/ \E i \in 1..MaxInFlight, newRoute \in NavRoutes : RerouteSucceeds(i, newRoute)
  \/ \E i \in 1..MaxInFlight : RerouteFails(i)
  \/ HandleEndNavigation
  \/ EndTimerFires

\* the voice client changes nothing about the two props, so one value of each
VoiceInit == NavInit /\ useRealGPS /\ onRouteUpdateProp

VoiceSpec == VoiceInit /\ [][VoiceNext]_vars

\* ------------------------------------------------------------------
\* SmartRoutingOrchestrator (server/lib/smartRoutingOrchestrator.ts)
\* Coordinates are in millionths of a degree, times in milliseconds.
\* ------------------------------------------------------------------

CACHE_TTL == 3600000
CACHE_CLEAN_SIZE == 500

MaxTicks == 2
MaxCalls == 2

\* the RouteTracker and GroundNavigation are not running
ClientIdle ==
  /\ tracker = NewTracker([geometry |-> <<>>])
  /\ lastCall = NoCall
  /\ completeCalls = 0
  /\ NavIdle

isInKamperlandArea(point) ==
  /\ point.lat >= 51585000 /\ point.lat <= 51595000
  /\ point.lng >= 3715000 /\ point.lng <= 3730000

isInZuhauseArea(point) ==
  /\ point.lat >= 51000000 /\ point.lat <= 51010000
  /\ point.lng >= 6040000 /\ point.lng <= 6060000

\* the name of the network; the file of 'no-local-network' does not exist
determineRoutingNetwork(start, end) ==
  IF isInZuhauseArea(start) \/ isInZuhauseArea(end) THEN "zuhause-network"
  ELSE IF isInKamperlandArea(start) \/ isInKamperlandArea(end) THEN "kamperland-network"
  ELSE "no-local-network"

\* Number.prototype.toFixed(5) of a non-negative coordinate, in units of 0.00001
toFixed5(x) == (x + 5) \div 10

\* the key string `${startKey}-${endKey}-${mode}`, by its parts
generateCacheKey(start, end, mode) ==
  [start |-> <<toFixed5(start.lat), toFixed5(start.lng)>>,
   end |-> <<toFixed5(end.lat), toFixed5(end.lng)>>,
   mode |-> mode]

getFromCache_Inclusive(cache, key, t) ==
  IF key \in DOMAIN cache /\ t - cache[key].timestamp <= CACHE_TTL
  THEN <<cache[key].route>>
  ELSE <<>>

\* <<>> is null
getFromCache(cache, key, t) ==
  IF key \in DOMAIN cache /\ t - cache[key].timestamp < CACHE_TTL
  THEN <<cache[key].route>>
  ELSE <<>>

\* consulted is history: the providers the caching call consulted
cacheRoute(cache, key, newRoute, t, consulted) ==
  LET set == [k \in DOMAIN cache \cup {key} |->
                IF k = key
                THEN [route |-> newRoute, timestamp |-> t, consulted |-> consulted]
                ELSE cache[k]]
  IN  IF Cardinality(DOMAIN set) > CACHE_CLEAN_SIZE
      THEN [k \in {j \in DOMAIN set : ~(t - set[j].timestamp > CACHE_TTL)} |-> set[k]]
      ELSE set

\* An instruction text is modelled by what hasLowQualityInstructions tests of
\* it: "german" contains one of the cues, "generic" matches genericPattern
\* (and contains no cue), "other" does neither.
hasLowQualityInstructions_Always(instructions) ==
  TRUE

hasLowQualityInstructions(instructions) ==
  IF Len(instructions) = 0 THEN TRUE
  ELSE IF \E i \in 1..Len(instructions) : instructions[i] = "german" THEN FALSE
  ELSE Len(instructions) = 1 /\ instructions[1] = "generic"

\* what osmRouter.findRoute (with the loading before it) does: it throws,
\* finds no route, or returns a route with its instructions; whole says
\* whether route.distance prints as an integer
EngineInstructions ==
  {<<>>, <<"generic">>, <<"german">>}

LocalOutcomes ==
  {[kind |-> k, instructions |-> <<>>, whole |-> TRUE] : k \in {"throws", "fail"}}
  \cup {[kind |-> "ok", instructions |-> i, whole |-> TRUE] : i \in EngineInstructions}
  \cup {[kind |-> "ok", instructions |-> <<>>, whole |-> FALSE]}

\* what googleDirections.calculateRoute does
GoogleOutcomes == {"ok", "fail", "throws"}

\* the path a provider returns for a route it found: [lng, lat] pairs
ProviderPath(start, end) ==
  << <<start.lng, start.lat>>, <<end.lng, start.lat>>, <<end.lng, end.lat>> >>

Kamperland1 == [lat |-> 51590000, lng |-> 3720000]
Kamperland1b == [lat |-> 51590004, lng |-> 3720001]
Kamperland2 == [lat |-> 51586000, lng |-> 3716000]
Zuhause1 == [lat |-> 51005000, lng |-> 6050000]
Outside1 == [lat |-> 52000000, lng |-> 5000000]
Outside2 == [lat |-> 52010000, lng |-> 5010000]

\* the start, end and mode of a request
Requests ==
  {<<Kamperland1, Kamperland2, "walking">>, <<Kamperland1b, Kamperland2, "walking">>,
   <<Kamperland1, Kamperland2, "driving">>, <<Zuhause1, Kamperland1, "walking">>,
   <<Outside1, Outside2, "walking">>}

\* `Walk ${osmResult.route.distance}m to destination` when the engine gave none
InstructionsOf(local) ==
  IF Len(local.instructions) > 0 THEN local.instructions
  ELSE << IF local.whole THEN "generic" ELSE "other" >>

LocalRoute(start, end, instructions, method) ==
  [success |-> TRUE, path |-> ProviderPath(start, end),
   instructions |-> instructions, method |-> method]

GoogleRoute(start, end, method) ==
  [success |-> TRUE, path |-> ProviderPath(start, end),
   instructions |-> <<"other">>, method |-> method]

SyntheticRoute(start, end) ==
  [success |-> TRUE, path |-> << <<start.lng, start.lat>>, <<end.lng, end.lat>> >>,
   instructions |-> <<"german">>, method |-> "synthetic-straight-line"]

\* what tryGoogleDirections returns when Google finds no route or throws
FailedRoute(method) ==
  [success |-> FALSE, method |-> method]

\* the entry of the cache under key, whatever its age: <<>> is undefined
EntryAt(cache, key) ==
  IF key \in DOMAIN cache THEN <<cache[key]>> ELSE <<>>

\* history of a call: at, key and entry are the time of its cache lookup,
\* the key it looked up and the entry that was there
Returned(start, end, mode, result, hit, consulted, at, key, entry) ==
  [kind |-> "returned", start |-> start, end |-> end, mode |-> mode, route |-> result,
   hit |-> hit, consulted |-> consulted, at |-> at, key |-> key, entry |-> entry]

\* one entry of the history of providers a call consulted
Consulted(provider, outcome, instructions) ==
  [provider |-> provider, outcome |-> outcome, instructions |-> instructions]

\* a call waiting on Google: stage is the await it stopped at
Waiting(start, end, mode, stage, backup, consulted) ==
  [start |-> start, end |-> end, mode |-> mode, stage |-> stage, backup |-> backup,
   consulted |-> consulted, at |-> now,
   entry |-> EntryAt(routeCache, generateCacheKey(start, end, mode))]

OrchInit ==
  /\ ClientIdle
  /\ PageIdle
  /\ OrchIdle
  /\ TTSIdle
  /\ GestureIdle

\* calculateRoute up to its return or to its first await
CalculateRoute(start, end, mode, fileExists, local) ==
  /\ calls < MaxCalls
  /\ calls' = calls + 1
  /\ \E key \in {generateCacheKey(start, end, mode)} :
     \E cached \in {getFromCache(routeCache, key, now)} :
     \E network \in {determineRoutingNetwork(start, end)} :
     \E instructions \in {InstructionsOf(local)} :
       IF cached # <<>>
       THEN \* lines 153-158
            /\ lastResult' = Returned(start, end, mode, cached[1], TRUE, <<>>, now, key,
                                      EntryAt(routeCache, key))
            /\ UNCHANGED <<routeCache, awaiting>>
       ELSE IF network = "no-local-network" \/ ~fileExists
       THEN \* lines 171-175
            /\ awaiting' = Append(awaiting,
                 Waiting(start, end, mode, "direct", FailedRoute("none"),
                         <<Consulted("local", "unavailable", <<>>)>>))
            /\ UNCHANGED <<routeCache, lastResult>>
       ELSE IF local.kind # "ok"
       THEN \* the catch of line 286, or osmResult.success false: line 293
            /\ awaiting' = Append(awaiting,
                 Waiting(start, end, mode, "fallback", FailedRoute("none"),
                         <<Consulted("local", local.kind, <<>>)>>))
            /\ UNCHANGED <<routeCache, lastResult>>
       ELSE IF hasLowQualityInstructions(instructions)
       THEN IF (isInZuhauseArea(start) \/ isInZuhauseArea(end)) /\ network = "zuhause-network"
            THEN \* lines 205-222
                 \E r \in {LocalRoute(start, end, instructions, "zuhause-network-german-test")} :
                   /\ routeCache' = cacheRoute(routeCache, key, r, now,
                                                <<Consulted("local", "ok", instructions)>>)
                   /\ lastResult' = Returned(start, end, mode, r, FALSE,
                                             <<Consulted("local", "ok", instructions)>>,
                                             now, key, EntryAt(routeCache, key))
                   /\ UNCHANGED awaiting
            ELSE \* lines 224-239
                 /\ awaiting' = Append(awaiting,
                      Waiting(start, end, mode, "upgrade",
                              LocalRoute(start, end, instructions, "kamperland-network-backup"),
                              <<Consulted("local", "ok", instructions)>>))
                 /\ UNCHANGED <<routeCache, lastResult>>
       ELSE \* lines 271-284
            \E r \in {LocalRoute(start, end, instructions, "modern-routing-engine")} :
              /\ routeCache' = cacheRoute(routeCache, key, r, now,
                                           <<Consulted("local", "ok", instructions)>>)
              /\ lastResult' = Returned(start, end, mode, r, FALSE,
                                        <<Consulted("local", "ok", instructions)>>,
                                        now, key, EntryAt(routeCache, key))
              /\ UNCHANGED awaiting
  /\ UNCHANGED <<now, ticks>>
  /\ UNCHANGED <<trackerVars, navVars, ttsVars, gestureVars, pageVars>>

\* googleDirections.calculateRoute settles and the call runs to its return
GoogleSettles(i, outcome) ==
  /\ i \in 1..Len(awaiting)
  /\ awaiting' = RemoveAt(awaiting, i)
  /\ \E c \in {awaiting[i]} :
     \E key \in {generateCacheKey(c.start, c.end, c.mode)} :
     \E consulted \in {Append(c.consulted, Consulted("google", outcome, <<>>))} :
     \E r \in {IF outcome = "ok"
               THEN GoogleRoute(c.start, c.end,
                      IF c.stage = "direct" THEN "google-directions-direct"
                      ELSE IF c.stage = "upgrade" THEN "google-directions-upgrade"
                      ELSE "google-directions-fallback")
               ELSE IF c.stage = "direct"
               THEN FailedRoute(IF outcome = "fail" THEN "google-directions-failed"
                                ELSE "google-directions-error")
               ELSE IF c.stage = "upgrade" THEN c.backup
               ELSE SyntheticRoute(c.start, c.end)} :
       /\ routeCache' = IF outcome = "ok" \/ c.stage = "upgrade"
                        THEN cacheRoute(routeCache, key, r, now, consulted)
                        ELSE routeCache
       /\ lastResult' = Returned(c.start, c.end, c.mode, r, FALSE, consulted, c.at,
                                 key, c.entry)
  /\ UNCHANGED <<now, ticks, calls>>
  /\ UNCHANGED <<trackerVars, navVars, ttsVars, gestureVars, pageVars>>

\* time passes
Tick(d) ==
  /\ ticks < MaxTicks
  /\ ticks' = ticks + 1
  /\ now' = now + d
  /\ UNCHANGED <<routeCache, calls, awaiting, lastResult>>
  /\ UNCHANGED <<trackerVars, navVars, ttsVars, gestureVars, pageVars>>

OrchNext ==
  \/ \E request \in Requests, fileExists \in BOOLEAN, local \in LocalOutcomes :
       CalculateRoute(request[1], request[2], request[3], fileExists, local)
  \/ \E i \in 1..MaxCalls, outcome \in GoogleOutcomes : GoogleSettles(i, outcome)
  \/ \E d \in {1, CACHE_TTL - 1} : Tick(d)

OrchestratorSpec == OrchInit /\ [][OrchNext]_vars

\* ------------------------------------------------------------------
\* SecureTTSClient (client/src/services/secureTTSClient.ts)
\* ------------------------------------------------------------------

MAX_CACHE_SIZE == 50

MaxSpeaks == 3

\* A text to speak, with its type: head is the first 15 bytes of
\* `${type}:${text}` and tail the rest.
Texts ==
  {[head |-> 1, tail |-> 0], [head |-> 1, tail |-> 1],
   [head |-> MAX_CACHE_SIZE + 1, tail |-> 0], [head |-> MAX_CACHE_SIZE + 2, tail |-> 0]}

\* btoa(...).slice(0, 20): 20 base64 characters encode the first 15 bytes
getCacheKey(text) == text.head

\* the audioCache Map is kept as its entries in insertion order
CacheKeys(cache) == {cache[i].key : i \in 1..Len(cache)}

CacheGet(cache, key) ==
  IF key \in CacheKeys(cache)
  THEN <<(CHOOSE e \in {cache[i] : i \in 1..Len(cache)} : e.key = key).audio>>
  ELSE <<>>

\* Map.set: the value of a key that is present is replaced in place
CacheSet(cache, key, audio) ==
  IF key \in CacheKeys(cache)
  THEN [i \in 1..Len(cache) |->
          IF cache[i].key = key THEN [key |-> key, audio |-> audio] ELSE cache[i]]
  ELSE Append(cache, [key |-> key, audio |-> audio])

addToCache_NoEviction(cache, key, audio) ==
  CacheSet(cache, key, audio)

addToCache(cache, key, audio) ==
  CacheSet(IF Len(cache) >= MAX_CACHE_SIZE THEN Tail(cache) ELSE cache, key, audio)

\* a cache that n speak calls, one after the other, have filled
FilledCache(n) ==
  [i \in 1..n |-> [key |-> i, audio |-> [head |-> i, tail |-> 0]]]

\* playbackQueue.then(callback): the callback of the i-th playAudio call
\* runs once the promise of the call before it is fulfilled
QueueFulfilled_Unchained(queue, i) ==
  TRUE

QueueFulfilled(queue, i) ==
  IF i = 1 THEN TRUE ELSE queue[i - 1].status = "ended"

\* the promise of the call before the i-th is rejected
QueueRejected(queue, i) ==
  IF i = 1 THEN FALSE ELSE queue[i - 1].status \in {"failed", "timeout", "rejected"}

NoTTSEvent == [kind |-> "none", key |-> 0, before |-> <<>>, after |-> <<>>]

TTSInit ==
  /\ ClientIdle
  /\ PageIdle
  /\ OrchIdle
  /\ GestureIdle
  /\ \E n \in {0, MAX_CACHE_SIZE - 1, MAX_CACHE_SIZE} : audioCache = FilledCache(n)
  /\ currentVoiceId = ""
  /\ generating = <<>>
  /\ playbacks = <<>>
  /\ speaks = 0
  /\ ttsEvent = NoTTSEvent

\* playAudio(audioBuffer): the call is chained to playbackQueue
playAudio(queue, audio) ==
  Append(queue, [audio |-> audio, status |-> "queued"])

\* speak up to await generateTTS (cache miss) or to await playAudio (cache hit)
Speak(text) ==
  /\ speaks < MaxSpeaks
  /\ speaks' = speaks + 1
  /\ \E cached \in {CacheGet(audioCache, getCacheKey(text))} :
       IF cached = <<>>
       THEN /\ generating' = Append(generating, text)
            /\ UNCHANGED playbacks
       ELSE /\ playbacks' = playAudio(playbacks, cached[1])
            /\ UNCHANGED generating
  /\ ttsEvent' = NoTTSEvent
  /\ UNCHANGED <<audioCache, currentVoiceId>>
  /\ UNCHANGED <<trackerVars, navVars, orchVars, gestureVars, pageVars>>

\* generateTTS resolves: addToCache, then speak goes on to await playAudio
GenerateResolves(i) ==
  /\ i \in 1..Len(generating)
  /\ generating' = RemoveAt(generating, i)
  /\ \E key \in {getCacheKey(generating[i])} :
     \E after \in {addToCache(audioCache, key, generating[i])} :
       /\ audioCache' = after
       /\ ttsEvent' = [kind |-> "added", key |-> key, before |-> audioCache, after |-> after]
  /\ playbacks' = playAudio(playbacks, generating[i])
  /\ UNCHANGED <<currentVoiceId, speaks>>
  /\ UNCHANGED <<trackerVars, navVars, orchVars, gestureVars, pageVars>>

\* generateTTS rejects: speak rethrows
GenerateRejects(i) ==
  /\ i \in 1..Len(generating)
  /\ generating' = RemoveAt(generating, i)
  /\ ttsEvent' = NoTTSEvent
  /\ UNCHANGED <<audioCache, currentVoiceId, playbacks, speaks>>
  /\ UNCHANGED <<trackerVars, navVars, orchVars, gestureVars, pageVars>>

\* the queued callback of the i-th playAudio call runs: decodeAudioData
\* (or initAudioContext) throws, or source.start()
PlaybackStarts(i, decoded) ==
  /\ i \in 1..Len(playbacks)
  /\ playbacks[i].status = "queued"
  /\ QueueFulfilled(playbacks, i)
  /\ playbacks' = [playbacks EXCEPT ![i].status = IF decoded THEN "playing" ELSE "failed"]
  /\ ttsEvent' = NoTTSEvent
  /\ UNCHANGED <<audioCache, currentVoiceId, generating, speaks>>
  /\ UNCHANGED <<trackerVars, navVars, orchVars, gestureVars, pageVars>>

\* source.onended resolves the playback, or the timeout rejects it
PlaybackSettles(i, ended) ==
  /\ i \in 1..Len(playbacks)
  /\ playbacks[i].status = "playing"
  /\ playbacks' = [playbacks EXCEPT ![i].status = IF ended THEN "ended" ELSE "timeout"]
  /\ ttsEvent' = NoTTSEvent
  /\ UNCHANGED <<audioCache, currentVoiceId, generating, speaks>>
  /\ UNCHANGED <<trackerVars, navVars, orchVars, gestureVars, pageVars>>

\* the promise before the i-th call is rejected: then() passes the
\* rejection on and the callback of the i-th call never runs
RejectionPropagates(i) ==
  /\ i \in 1..Len(playbacks)
  /\ playbacks[i].status = "queued"
  /\ QueueRejected(playbacks, i)
  /\ playbacks' = [playbacks EXCEPT ![i].status = "rejected"]
  /\ ttsEvent' = NoTTSEvent
  /\ UNCHANGED <<audioCache, currentVoiceId, generating, speaks>>
  /\ UNCHANGED <<trackerVars, navVars, orchVars, gestureVars, pageVars>>

\* clearCache(), also as the last step of cleanup()
ClearCache ==
  /\ audioCache # <<>>
  /\ audioCache' = <<>>
  /\ ttsEvent' = NoTTSEvent
  /\ UNCHANGED <<currentVoiceId, generating, playbacks, speaks>>
  /\ UNCHANGED <<trackerVars, navVars, orchVars, gestureVars, pageVars>>

\* setVoice(voiceId) after the server answered ok: lines 264-268
SetVoice(voiceId) ==
  /\ currentVoiceId # voiceId
  /\ currentVoiceId' = voiceId
  /\ audioCache' = <<>>
  /\ ttsEvent' = NoTTSEvent
  /\ UNCHANGED <<generating, playbacks, speaks>>
  /\ UNCHANGED <<trackerVars, navVars, orchVars, gestureVars, pageVars>>

TTSNext ==
  \/ \E text \in Texts : Speak(text)
  \/ \E i \in 1..MaxSpeaks : GenerateResolves(i)
  \/ \E i \in 1..MaxSpeaks : GenerateRejects(i)
  \/ \E i \in 1..MaxSpeaks, decoded \in BOOLEAN : PlaybackStarts(i, decoded)
  \/ \E i \in 1..MaxSpeaks, ended \in BOOLEAN : PlaybackSettles(i, ended)
  \/ \E i \in 1..MaxSpeaks : RejectionPropagates(i)
  \/ ClearCache
  \/ \E voiceId \in {"george", "lily"} : SetVoice(voiceId)

TTSSpec == TTSInit /\ [][TTSNext]_vars

\* ------------------------------------------------------------------
\* GestureEnhancedMap (client/src/components/Map/GestureEnhancedMap.tsx)
\* Times are in milliseconds; the rotation gesture is left out. taps is
\* history: one record for every touch-end that was processed as a tap.
\* ------------------------------------------------------------------

LONG_PRESS_MS == 500
TAP_TIMEOUT_MS == 250

MaxTouchStarts == 3

\* the two refs, where <<>> is null
GestureRefs(start, timeout) == [touchStart |-> start, tapTimeoutId |-> timeout]

\* the branches of handleTouchStart on e.touches.length; with two or more
\* touches a pending tap timeout is cleared
handleTouchStart(refs, touchCount, t) ==
  IF touchCount = 1 THEN GestureRefs(<<t>>, refs.tapTimeoutId) ELSE GestureRefs(<<>>, <<>>)

TapTimeoutDue_Early(touchEnd) ==
  touchEnd + 100

\* setTimeout(..., 250) at touchEnd
TapTimeoutDue(touchEnd) ==
  touchEnd + TAP_TIMEOUT_MS

GestureInit ==
  /\ ClientIdle
  /\ PageIdle
  /\ OrchIdle
  /\ TTSIdle
  /\ GestureIdle

\* a finger goes down: handleTouchStart
TouchStart ==
  /\ touchStarts < MaxTouchStarts
  /\ touches < 3
  /\ touchStarts' = touchStarts + 1
  /\ touches' = touches + 1
  /\ \E refs \in {handleTouchStart(GestureRefs(touchStart, tapTimeoutId), touches + 1, gNow)} :
       /\ touchStart' = refs.touchStart
       /\ tapTimeoutId' = refs.tapTimeoutId
       /\ taps' = IF tapTimeoutId # <<>> /\ refs.tapTimeoutId = <<>>
                  THEN [taps EXCEPT ![tapTimeoutId[1].tap].cancelled = TRUE]
                  ELSE taps
  /\ UNCHANGED <<gNow, lastTapTime>>
  /\ UNCHANGED <<trackerVars, navVars, orchVars, ttsVars, pageVars>>

\* a finger goes up: handleTouchEnd
TouchEnd ==
  /\ touches > 0
  /\ touches' = touches - 1
  /\ IF touches - 1 > 0 \/ touchStart = <<>>
     THEN UNCHANGED <<touchStart, tapTimeoutId, lastTapTime, taps>>
     ELSE /\ touchStart' = <<>>
          /\ IF gNow - touchStart[1] > LONG_PRESS_MS
             THEN \* onLongPress
                  UNCHANGED <<tapTimeoutId, lastTapTime, taps>>
             ELSE IF tapTimeoutId # <<>>
             THEN \* clearTimeout, onDoubleTap
                  /\ tapTimeoutId' = <<>>
                  /\ lastTapTime' = 0
                  /\ taps' = Append(taps, [end |-> gNow, duration |-> gNow - touchStart[1],
                                           double |-> TRUE, single |-> <<>>,
                                           cancelled |-> FALSE])
             ELSE /\ tapTimeoutId' = <<[due |-> TapTimeoutDue(gNow), tap |-> Len(taps) + 1]>>
                  /\ lastTapTime' = gNow
                  /\ taps' = Append(taps, [end |-> gNow, duration |-> gNow - touchStart[1],
                                           double |-> FALSE, single |-> <<>>,
                                           cancelled |-> FALSE])
  /\ UNCHANGED <<gNow, touchStarts>>
  /\ UNCHANGED <<trackerVars, navVars, orchVars, ttsVars, pageVars>>

\* the tap timeout fires: onSingleTap
TapTimeoutFires ==
  /\ tapTimeoutId # <<>>
  /\ gNow >= tapTimeoutId[1].due
  /\ tapTimeoutId' = <<>>
  /\ taps' = [taps EXCEPT ![tapTimeoutId[1].tap].single = <<gNow>>]
  /\ UNCHANGED <<gNow, touches, touchStart, lastTapTime, touchStarts>>
  /\ UNCHANGED <<trackerVars, navVars, orchVars, ttsVars, pageVars>>

\* the end of the 250 ms after the last tap, while it lies ahead: <<>> otherwise
TapWindowEnd ==
  IF taps = <<>> THEN <<>>
  ELSE IF gNow < taps[Len(taps)].end + TAP_TIMEOUT_MS
  THEN <<taps[Len(taps)].end + TAP_TIMEOUT_MS>>
  ELSE <<>>

\* time passes while a touch lasts or the 250 ms after a tap run, and not
\* beyond the time a pending timeout is due
Advance(d) ==
  /\ IF touchStart # <<>> THEN gNow - touchStart[1] <= LONG_PRESS_MS ELSE TapWindowEnd # <<>>
  /\ tapTimeoutId # <<>> => gNow < tapTimeoutId[1].due
  /\ \E t \in {IF TapWindowEnd # <<>> THEN Min(gNow + d, TapWindowEnd[1]) ELSE gNow + d} :
       gNow' = IF tapTimeoutId # <<>> THEN Min(t, tapTimeoutId[1].due) ELSE t
  /\ UNCHANGED <<touches, touchStart, tapTimeoutId, lastTapTime, touchStarts, taps>>
  /\ UNCHANGED <<trackerVars, navVars, orchVars, ttsVars, pageVars>>

GestureNext ==
  \/ TouchStart
  \/ TouchEnd
  \/ TapTimeoutFires
  \/ \E d \in {100, LONG_PRESS_MS + 1} : Advance(d)

GestureSpec == GestureInit /\ [][GestureNext]_vars

\* ------------------------------------------------------------------
\* The Navigation page (unnamed/part_010, pages/Navigation.tsx)
\* A route is kept as the destination it leads to; <<>> is null.
\* ------------------------------------------------------------------

MaxRouteRequests == 2

PageInit ==
  /\ ClientIdle
  /\ OrchIdle
  /\ TTSIdle
  /\ GestureIdle
  /\ PageIdle

\* handleNavigateToPOI up to await getRoute.mutateAsync
NavigateToPOI(poi) ==
  /\ routeRequests < MaxRouteRequests
  /\ routeRequests' = routeRequests + 1
  /\ destinationRef' = <<poi>>
  /\ currentRoute' = <<>>
  /\ pageNavigating' = FALSE
  /\ pendingRoutes' = Append(pendingRoutes, [to |-> poi, from |-> "poi"])
  /\ pageEvent' = "navigateToPOI"
  /\ UNCHANGED <<routeTrackerRef, rerouteDebounceTimerRef, toastDestination>>
  /\ UNCHANGED <<trackerVars, navVars, orchVars, ttsVars, gestureVars>>

clearDestination_Kept(ref) ==
  ref

\* destinationRef.current = null (line 278)
clearDestination(ref) ==
  <<>>

\* handleEndNavigation
PageEndNavigation ==
  /\ routeTrackerRef' = <<>>
  /\ rerouteDebounceTimerRef' = <<>>
  /\ pageNavigating' = FALSE
  /\ currentRoute' = <<>>
  /\ destinationRef' = clearDestination(destinationRef)
  /\ pageEvent' = "endNavigation"
  /\ UNCHANGED <<pendingRoutes, toastDestination, routeRequests>>
  /\ UNCHANGED <<trackerVars, navVars, orchVars, ttsVars, gestureVars>>

\* handleMapDoubleClick (also called by handleMapLongPress); wide is
\* window.innerWidth > 768
MapDoubleClick(coords, wide) ==
  /\ pageEvent # "mapDoubleClick"
  /\ IF wide
     THEN /\ destinationRef' = <<coords>>
          /\ toastDestination' = <<coords>>
     ELSE UNCHANGED <<destinationRef, toastDestination>>
  /\ pageEvent' = "mapDoubleClick"
  /\ UNCHANGED <<currentRoute, pageNavigating, routeTrackerRef, rerouteDebounceTimerRef,
                 pendingRoutes, routeRequests>>
  /\ UNCHANGED <<trackerVars, navVars, orchVars, ttsVars, gestureVars>>

\* the 'Start Navigation' button of the toast, up to await getRoute.mutateAsync
StartNavigationClick ==
  /\ toastDestination # <<>>
  /\ routeRequests < MaxRouteRequests
  /\ routeRequests' = routeRequests + 1
  /\ pendingRoutes' = Append(pendingRoutes, [to |-> toastDestination[1], from |-> "toast"])
  /\ pageEvent' = "startNavigation"
  /\ UNCHANGED <<currentRoute, pageNavigating, destinationRef, routeTrackerRef,
                 rerouteDebounceTimerRef, toastDestination>>
  /\ UNCHANGED <<trackerVars, navVars, orchVars, ttsVars, gestureVars>>

\* getRoute.mutateAsync settles: outcome is "route", "null" or "error"
RouteSettles(i, outcome) ==
  /\ i \in 1..Len(pendingRoutes)
  /\ pendingRoutes' = RemoveAt(pendingRoutes, i)
  /\ IF outcome = "error" \/ (outcome = "null" /\ pendingRoutes[i].from = "poi")
     THEN UNCHANGED <<currentRoute, pageNavigating>>
     ELSE /\ currentRoute' = IF outcome = "null" THEN <<>> ELSE <<pendingRoutes[i].to>>
          /\ pageNavigating' = TRUE
  /\ pageEvent' = "routeSettled"
  /\ UNCHANGED <<destinationRef, routeTrackerRef, rerouteDebounceTimerRef, toastDestination,
                 routeRequests>>
  /\ UNCHANGED <<trackerVars, navVars, orchVars, ttsVars, gestureVars>>

PageNext ==
  \/ \E poi \in {"poiA", "poiB"} : NavigateToPOI(poi)
  \/ PageEndNavigation
  \/ \E wide \in BOOLEAN : MapDoubleClick("mapPoint", wide)
  \/ StartNavigationClick
  \/ \E i \in 1..MaxRouteRequests, outcome \in {"route", "null", "error"} :
       RouteSettles(i, outcome)

PageSpec == PageInit /\ [][PageNext]_vars





\* ------------------------------------------------------------------ claims
\* C1: at most one reroute request is in flight at any time: however
\* handleAutoReroute is called before the first quickReroute promise
\* settles, exactly one quickReroute call is outstanding.
C1_AtMostOneInFlight == Len(inFlight) <= 1

StepIndex == tracker.currentStepIndex

InstructionCount ==
  IF HasInstructions(tracker.route) THEN Len(tracker.route.instructions) ELSE 0

\* an updatePosition call never lowers the step index
StepNeverDecreases ==
  [][lastCall'.op = "updatePosition" => tracker'.currentStepIndex >= tracker.currentStepIndex]_vars

\* C2 (as stated): for a fixed route the step index never decreases across
\* updatePosition calls and never exceeds instructions.length - 1, for every
\* instruction count, the empty instruction list included.
C2_Original ==
  [](StepIndex <= InstructionCount - 1) /\ StepNeverDecreases

\* C2 (amended): for a fixed route the step index never decreases across
\* updatePosition calls and never exceeds instructions.length - 1 when the
\* route has instructions; with an empty instruction list it stays 0.
C2_StepMonotoneBounded ==
  [](StepIndex <= Max(InstructionCount - 1, 0)) /\ StepNeverDecreases

\* the last instruction was reached by advancing, and a further update left it there
C2_Witness ==
  /\ lastCall.op = "updatePosition"
  /\ InstructionCount >= 2
  /\ StepIndex = InstructionCount - 1
  /\ lastCall.prevStep = StepIndex
  /\ lastCall.progress.shouldAdvance

\* C3: within one route lifetime onRouteComplete is invoked at most once,
\* whatever the sequence of updatePosition calls.
C3_CompleteAtMostOnce == completeCalls <= 1

\* metres from a position to the nearest point of the polyline
RECURSIVE MetersLoop(_, _, _)
MetersLoop(geometry, position, i) ==
  LET c == getClosestPointOnSegment(position, GeoPoint(geometry, i), GeoPoint(geometry, i + 1))
      d == calcDistanceMeters(position.lat, position.lng, c.lat, c.lng)
  IN  IF i = Len(geometry) - 2 THEN d ELSE Min(d, MetersLoop(geometry, position, i + 1))

MetersFromRoute(r, position) == MetersLoop(r.geometry, position, 0)

\* C4: updatePosition reports isOffRoute exactly for the positions that are
\* at least 25 metres from every segment of the route, and invokes
\* onOffRoute exactly then.
C4_OffRouteAt25Meters ==
  (lastCall.op = "updatePosition" /\ ~lastCall.threw /\ Len(tracker.route.geometry) >= 2) =>
    /\ lastCall.progress.isOffRoute <=> (MetersFromRoute(tracker.route, lastCall.position) >= 25)
    /\ (Len(lastCall.offRoute) = 1) <=> lastCall.progress.isOffRoute

\* C5: after a reroute attempt has finished, no further routing request is
\* issued until a new position sample has arrived (no retry loop on one
\* sample).
C5_NoRetryWithoutNewSample == event.kind = "requestIssued" => ~finishedSinceSample

\* C6: the result of a reroute request is applied only if navigation is
\* still running and the route the request was issued for is still the
\* active one; otherwise it is discarded.
C6_StaleResultDiscarded ==
  event.kind = "rerouteSucceeded" => (event.wasNavigating /\ ~event.superseded)

C8_SuccessResetsTracking ==
  event.kind = "rerouteSucceeded" =>
    /\ lastCall.op = "updateRoute"
    /\ tracker.route = event.newRoute
    /\ tracker.currentStepIndex = 0
    /\ tracker.instructionAnchorIndices = initializeInstructionAnchors(event.newRoute, <<>>)
    /\ currentStepIndex = 0
    /\ offRouteCount = 0
    /\ ~isRerouting

\* a reroute replaced the route by another one while the tracker was past
\* the first step
C8_Witness ==
  /\ event.kind = "rerouteSucceeded"
  /\ event.newRoute # event.prevRoute
  /\ event.prevStep = 1

\* C9: the automatic reroute path issues a routing request only when
\* useRealGPS is true.
C9_RequestOnlyWithRealGPS == event.kind = "requestIssued" => useRealGPS

\* C11: updatePosition declares the route complete, and calls
\* onRouteComplete, exactly when the raw position is less than 3 metres from
\* the final geometry point, whatever the step index is.
C11_CompleteWithin3Meters ==
  (lastCall.op = "updatePosition" /\ ~lastCall.threw /\ Len(tracker.route.geometry) >= 1) =>
    LET destination == GeoPoint(tracker.route.geometry, Len(tracker.route.geometry) - 1)
    IN  (lastCall.complete = 1) <=>
          (calcDistanceMeters(lastCall.position.lat, lastCall.position.lng,
                              destination.lat, destination.lng) < 3)

\* C12: onOffRoute(distance) is invoked on every updatePosition call whose
\* position is off route, also when the call before was off route already,
\* and on no call whose position is not off route.
C12_OffRouteEveryUpdate ==
  lastCall.op = "updatePosition" =>
    lastCall.offRoute = IF lastCall.progress.isOffRoute
                        THEN <<lastCall.progress.offRouteDistance>> ELSE <<>>

\* two updatePosition calls in a row were off route and both invoked onOffRoute
C12_Witness ==
  /\ lastCall.op = "updatePosition"
  /\ lastCall.prevOffRoute
  /\ lastCall.progress.isOffRoute
  /\ Len(lastCall.offRoute) = 1

\* C13: updateRoute, in any prior state, sets the step index and the
\* completed distance to 0, leaves an empty speed history, and invokes none
\* of onStepChange, onRouteComplete, onOffRoute.
C13_UpdateRouteResets ==
  lastCall.op = "updateRoute" =>
    /\ tracker.currentStepIndex = 0
    /\ tracker.completedDistance = 0
    /\ tracker.speedSamples = 0
    /\ lastCall.stepChange = <<>>
    /\ lastCall.complete = 0
    /\ lastCall.offRoute = <<>>

\* updateRoute was called on a tracker that had advanced to the second step
C13_Witness ==
  /\ lastCall.op = "updateRoute"
  /\ lastCall.prevStep = 1

\* a = Math.round(num / den), for den > 0
RoundsTo(a, num, den) == 2 * a * den - den <= 2 * num /\ 2 * num < 2 * a * den + den

\* a = Math.floor(num / den), for den > 0
FloorsTo(a, num, den) == a * den <= num /\ num < (a + 1) * den

\* a geometry of nine points
NinePointGeometry == [k \in 1..9 |-> <<10 * (k - 1), 0>>]

AnchorTable == tracker.instructionAnchorIndices

GeometryLength == Len(tracker.route.geometry)

\* C14 (as stated): the anchor table has length n and anchor[i] is
\* round(i / (n-1) * (g-1)) clamped to [0, g-1], for every i in 0..n-1;
\* n = 2 and g = 9 give [0, 8].
C14_Original ==
  /\ (InstructionCount >= 2 /\ GeometryLength >= 1) =>
       /\ Len(AnchorTable) = InstructionCount
       /\ \A i \in 0..(InstructionCount - 1) :
            \E r \in 0..GeometryLength :
              /\ RoundsTo(r, i * (GeometryLength - 1), InstructionCount - 1)
              /\ At(AnchorTable, i) = Max(0, Min(r, GeometryLength - 1))
  /\ initializeInstructionAnchors([geometry |-> NinePointGeometry,
                                   instructions |-> Instr(2)], <<>>) = <<0, 8>>

\* C14 (amended): the anchor table has length n and anchor[i] is
\* floor(i / (n-1) * (g-1)) clamped to [0, g-1], for every i in 0..n-1 and
\* n >= 2; n = 2 and g = 9 give [0, 8].
C14_AnchorsFloor ==
  /\ (InstructionCount >= 2 /\ GeometryLength >= 1) =>
       /\ Len(AnchorTable) = InstructionCount
       /\ \A i \in 0..(InstructionCount - 1) :
            \E r \in 0..GeometryLength :
              /\ FloorsTo(r, i * (GeometryLength - 1), InstructionCount - 1)
              /\ At(AnchorTable, i) = Max(0, Min(r, GeometryLength - 1))
  /\ initializeInstructionAnchors([geometry |-> NinePointGeometry,
                                   instructions |-> Instr(2)], <<>>) = <<0, 8>>

\* updateRoute with three instructions on two geometry points: the middle
\* one is anchored at floor(0.5) = 0
C14_Witness ==
  /\ lastCall.op = "updateRoute"
  /\ InstructionCount = 3
  /\ GeometryLength = 2
  /\ AnchorTable = <<0, 0, 1>>

\* C15: for a route with empty geometry updatePosition returns the default
\* progress (step 0, distanceRemaining 0, distanceToNext 0, isOffRoute
\* false, percentComplete 0), throws nothing, invokes no callback and
\* leaves the step index unchanged.
C15_EmptyGeometryDefault ==
  (lastCall.op = "updatePosition" /\ GeometryLength = 0) =>
    /\ lastCall.progress.currentStep = 0
    /\ lastCall.progress.distanceRemaining = 0
    /\ lastCall.progress.distanceToNext = 0
    /\ lastCall.progress.isOffRoute = FALSE
    /\ lastCall.progress.percentComplete = 0
    /\ ~lastCall.threw
    /\ lastCall.stepChange = <<>> /\ lastCall.complete = 0 /\ lastCall.offRoute = <<>>
    /\ StepIndex = lastCall.prevStep

\* updatePosition was called on a route with instructions and no geometry
C15_Witness ==
  /\ lastCall.op = "updatePosition"
  /\ GeometryLength = 0
  /\ InstructionCount >= 2

\* C16: no RouteTracker operation ends in an error, also for a route whose
\* instruction list is missing or empty or whose geometry has fewer than
\* two points.
C16_NoOperationThrows == ~lastCall.threw

\* C17: the percentComplete of every progress updatePosition returns is a
\* number within [0, 100], for every route, routes of length 0 included,
\* and every position.
C17_PercentWithinBounds ==
  (lastCall.op = "updatePosition" /\ ~lastCall.threw) =>
    lastCall.progress.percentComplete \in 0..(100 * FIX)

C19_AnchorsRebuilt ==
  lastCall.op = "updateRoute" =>
    /\ Len(AnchorTable) = InstructionCount
    /\ AnchorTable = initializeInstructionAnchors(tracker.route, <<>>)

\* C20: every entry of the anchor table is a valid geometry index, an
\* integer in [0, g-1], for every route with at least one instruction and
\* one geometry point, a route with exactly one instruction included.
C20_AnchorsAreIndices ==
  (InstructionCount >= 1 /\ GeometryLength >= 1) =>
    \A i \in 0..(Len(AnchorTable) - 1) : At(AnchorTable, i) \in 0..(GeometryLength - 1)

C21_AlwaysAvailable ==
  lastResult.kind = "returned" =>
    /\ lastResult.route.success
    /\ "path" \in DOMAIN lastResult.route
    /\ Len(lastResult.route.path) >= 2

\* r is x rounded to a multiple of ten (x >= 0, halves up)
RoundsTo5(r, x) == 10 * r - 5 <= x /\ x < 10 * r + 5

\* key k is the key of a request from start to end by mode
KeyOfRequest(k, start, end, mode) ==
  /\ RoundsTo5(k.start[1], start.lat) /\ RoundsTo5(k.start[2], start.lng)
  /\ RoundsTo5(k.end[1], end.lat) /\ RoundsTo5(k.end[2], end.lng)
  /\ k.mode = mode

\* the entry the last returned call found was cached less than CACHE_TTL before
FreshEntry ==
  /\ lastResult.entry # <<>>
  /\ lastResult.at - lastResult.entry[1].timestamp < CACHE_TTL

\* C22: calculateRoute returns a cached route, consulting neither the local
\* engine nor Google, exactly when a route for the same key (start and end
\* rounded to 5 decimals, and mode) was cached less than CACHE_TTL earlier;
\* an entry of age CACHE_TTL or more is never returned.
C22_CachedWithinTTL ==
  lastResult.kind = "returned" =>
    /\ KeyOfRequest(lastResult.key, lastResult.start, lastResult.end, lastResult.mode)
    /\ lastResult.hit <=> FreshEntry
    /\ lastResult.hit =>
         /\ lastResult.consulted = <<>>
         /\ lastResult.route = lastResult.entry[1].route
    /\ ~lastResult.hit => lastResult.consulted # <<>>

\* a request spelled with other coordinates of the same key got the entry
\* cached CACHE_TTL - 1 ms before
C22_Witness ==
  /\ lastResult.kind = "returned"
  /\ lastResult.hit
  /\ lastResult.start = Kamperland1b
  /\ lastResult.at - lastResult.entry[1].timestamp = CACHE_TTL - 1

\* an entry of age CACHE_TTL was there and the call computed a route
C22_ExpiredWitness ==
  /\ lastResult.kind = "returned"
  /\ ~lastResult.hit
  /\ lastResult.entry # <<>>
  /\ lastResult.at - lastResult.entry[1].timestamp = CACHE_TTL

\* the providers consulted by the call that computed the last returned route
OriginOfLastResult ==
  IF lastResult.hit THEN lastResult.entry[1].consulted ELSE lastResult.consulted

GoogleMethods ==
  {"google-directions-direct", "google-directions-upgrade", "google-directions-fallback"}

\* the instructions are the one generic instruction, or none
LowQuality(instructions) ==
  instructions = <<>> \/ instructions = <<"generic">>

\* C23: the providers are tried in a fixed order: the synthetic straight
\* line is returned only after, in the same call, the local engine produced
\* no successful route and Google was then called and failed or threw; a
\* Google route is returned only when the local engine was unavailable,
\* failed, or produced low-quality instructions.
C23_ProvidersInOrder ==
  lastResult.kind = "returned" =>
    /\ lastResult.route.method = "synthetic-straight-line" =>
         /\ ~lastResult.hit
         /\ Len(lastResult.consulted) = 2
         /\ lastResult.consulted[1].provider = "local"
         /\ lastResult.consulted[1].outcome \in {"fail", "throws"}
         /\ lastResult.consulted[2].provider = "google"
         /\ lastResult.consulted[2].outcome \in {"fail", "throws"}
    /\ lastResult.route.method \in GoogleMethods =>
         /\ Len(OriginOfLastResult) = 2
         /\ OriginOfLastResult[1].provider = "local"
         /\ \/ OriginOfLastResult[1].outcome \in {"unavailable", "fail", "throws"}
            \/ /\ OriginOfLastResult[1].outcome = "ok"
               /\ LowQuality(OriginOfLastResult[1].instructions)
         /\ OriginOfLastResult[2] = Consulted("google", "ok", <<>>)

\* the straight line was returned
C23_Witness ==
  /\ lastResult.kind = "returned"
  /\ lastResult.route.method = "synthetic-straight-line"

\* a Google route replaced low-quality local instructions, and came back from the cache
C23_UpgradeWitness ==
  /\ lastResult.kind = "returned"
  /\ lastResult.hit
  /\ lastResult.route.method = "google-directions-upgrade"

\* ------------------------------------------------------------------
\* SecureTTSClient claims
\* ------------------------------------------------------------------

\* C24: the audio cache never holds more than MAX_CACHE_SIZE entries after
\* any sequence of speak, clearCache and setVoice calls, overlapping speak
\* calls included; when a new key is added to a full cache the
\* oldest-inserted entry is evicted.
C24_CacheBounded ==
  /\ Len(audioCache) <= MAX_CACHE_SIZE
  /\ (/\ ttsEvent.kind = "added"
      /\ ttsEvent.key \notin CacheKeys(ttsEvent.before)
      /\ Len(ttsEvent.before) = MAX_CACHE_SIZE) =>
        /\ ttsEvent.after = Append(Tail(ttsEvent.before), ttsEvent.after[MAX_CACHE_SIZE])
        /\ ttsEvent.after[MAX_CACHE_SIZE].key = ttsEvent.key

\* a new key was added to a full cache
C24_Witness ==
  /\ ttsEvent.kind = "added"
  /\ ttsEvent.key \notin CacheKeys(ttsEvent.before)
  /\ Len(ttsEvent.before) = MAX_CACHE_SIZE

\* the i-th playAudio call started its playback
Started(i) == playbacks[i].status \in {"playing", "ended", "timeout"}

\* C25: playAudio prevents overlapping playback: a playback starts only
\* after every playback queued before it has ended, in the order of the
\* playAudio calls.
C25_NoOverlap ==
  \A j \in 1..Len(playbacks) :
    Started(j) => \A i \in 1..(j - 1) : playbacks[i].status = "ended"

\* the second of two queued playbacks is playing
C25_Witness ==
  /\ Len(playbacks) >= 2
  /\ playbacks[2].status = "playing"

\* C28: a failed playback (decode error or playback timeout) affects only
\* that playAudio call: every later playAudio call still plays, and
\* resolves when its playback ends.
C28_FailureIsLocal ==
  \A i \in 1..Len(playbacks) : playbacks[i].status # "rejected"

\* ------------------------------------------------------------------
\* GestureEnhancedMap claims
\* ------------------------------------------------------------------

\* taps i and i + 1 each lasted less than 500 ms and ended less than 250 ms apart
QuickPair(i) ==
  /\ taps[i].duration < LONG_PRESS_MS
  /\ taps[i + 1].duration < LONG_PRESS_MS
  /\ taps[i + 1].end - taps[i].end < TAP_TIMEOUT_MS

\* tap i lasted less than 500 ms, completed no double tap, 250 ms have
\* passed since it ended without another tap ending in them, and its
\* timeout is no longer pending
LoneTap(i) ==
  /\ taps[i].duration < LONG_PRESS_MS
  /\ ~taps[i].double
  /\ gNow >= taps[i].end + TAP_TIMEOUT_MS
  /\ tapTimeoutId = <<>> \/ tapTimeoutId[1].tap # i
  /\ i < Len(taps) => taps[i + 1].end > taps[i].end + TAP_TIMEOUT_MS

\* C26 as stated: two single-finger taps (each under 500 ms) whose
\* touch-ends are less than 250 ms apart produce exactly one onDoubleTap and
\* no onSingleTap; a single tap not followed by another within 250 ms
\* produces exactly one onSingleTap, 250 ms after its touch-end.
C26_Original ==
  /\ \A i \in 1..(Len(taps) - 1) :
       QuickPair(i) =>
         /\ taps[i + 1].double
         /\ taps[i].single = <<>> /\ taps[i + 1].single = <<>>
  /\ \A i \in 1..Len(taps) :
       LoneTap(i) => taps[i].single = <<taps[i].end + TAP_TIMEOUT_MS>>

\* C26, amended: the same, for a first tap that did not itself complete a
\* double tap, and when no touch of two or more fingers began while the
\* tap's timeout was pending.
C26_TapsRecognised ==
  /\ \A i \in 1..(Len(taps) - 1) :
       (QuickPair(i) /\ ~taps[i].double /\ ~taps[i].cancelled) =>
         /\ taps[i + 1].double
         /\ taps[i].single = <<>> /\ taps[i + 1].single = <<>>
  /\ \A i \in 1..Len(taps) :
       (LoneTap(i) /\ ~taps[i].cancelled) =>
         taps[i].single = <<taps[i].end + TAP_TIMEOUT_MS>>

\* a double tap was recognised, and later a lone tap produced onSingleTap
C26_Witness ==
  /\ Len(taps) >= 3
  /\ QuickPair(1) /\ taps[2].double
  /\ LoneTap(3) /\ taps[3].single # <<>>

\* ------------------------------------------------------------------
\* Navigation page claims
\* ------------------------------------------------------------------

\* C27: after handleEndNavigation, in whatever state it was called, no
\* reroute debounce timer remains pending, the stored destination is null,
\* the route tracker reference is released, isNavigating is false and
\* currentRoute is null.
C27_EndNavigationCleans ==
  pageEvent = "endNavigation" =>
    /\ rerouteDebounceTimerRef = <<>>
    /\ destinationRef = <<>>
    /\ routeTrackerRef = <<>>
    /\ ~pageNavigating
    /\ currentRoute = <<>>

\* navigation was ended after two route requests, one of them still pending
C27_Witness ==
  /\ pageEvent = "endNavigation"
  /\ pendingRoutes # <<>>
  /\ routeRequests = 2

\* C29: whenever navigation is active, destinationRef is the destination
\* of currentRoute, for every interleaving of the route requests started by
\* handleNavigateToPOI and by the 'Start Navigation' action of the map
\* double-click, whose promises resolve in any order.
C29_DestinationMatchesRoute ==
  pageNavigating => (currentRoute # <<>> /\ destinationRef = currentRoute)

====
